---- MODULE Spec2Model ----
(***************************************************************************)
(* CineMatch backend: the viewing-log store (media_logs), the media cache  *)
(* (media_cache) and the two match finders of MatchesService.              *)
(*                                                                         *)
(* Units.  Time is counted in ticks, TicksPerDay ticks to the day (the     *)
(* code counts milliseconds, 1000*60*60*24 to the day).  A rating is       *)
(* counted in steps of 1/RatingScale star, so that 4.5 stars is 9 when     *)
(* RatingScale = 2.  An optional field that is undefined in the code is a  *)
(* field missing from the record's DOMAIN.                                 *)
(***************************************************************************)
EXTENDS Integers, Sequences, FiniteSets, TLC

----------------------------------------------------------------------------
(* Bounds of the model *)

MaxLogs == 3
MaxRatingLogs == 2
MaxZeroRatingLogs == 3
MaxSlowLogs == 3
MaxFailureLogs == 3
MaxParamLogs == 3
MaxConcurrentLogs == 3
MaxServiceLogs == 2
MaxAgeLogs == 3
MaxLimitLogs == 3
MaxAgeClock == 4
MaxClock == 2
TicksPerDay == 2
RatingScale == 2

(* Program constants *)

MaxRating == 5
DefaultMaxDaysAgo == 30
DefaultMinRating == 0
DefaultLimit == 50

----------------------------------------------------------------------------
(* Input sets *)

Users == {"u1", "u2", "u3"}
Requesters == {"u1"}
RatingUsers == {"u1", "u2"}
TmdbIds == {550, 603}

NoFields == [k \in {} |-> 0]

OptField(name, S) == {NoFields} \cup {name :> v : v \in S}

AllRatings == 0..(MaxRating * RatingScale)

(* The POST /media-logs requests the main specification draws from, as pairs of
   the authenticated user and the request body: every user logs movie 603
   unrated; movie 550 is rated 4.5 by u1 and 5 by u2; show 550 is logged by
   u1 and by u3 *)
LogRequests ==
    {<<u, [tmdbId |-> 603, mediaType |-> "movie"]>> : u \in Users}
    \cup {<<u, [tmdbId |-> 550, mediaType |-> "tv"]>> : u \in {"u1", "u3"}}
    \cup {<<"u1", [tmdbId |-> 550, mediaType |-> "movie", rating |-> 4 * RatingScale + 1]>>,
          <<"u2", [tmdbId |-> 550, mediaType |-> "movie", rating |-> MaxRating * RatingScale]>>}

(* The request bodies the rating specification draws from: one title, every rating *)
RatingLogInputs ==
    {[tmdbId |-> 550, mediaType |-> "movie"] @@ r : r \in OptField("rating", AllRatings)}

(* The POST /media-logs requests of the zero-star specification: u1 logs movie
   550 with 0 stars or with 2 stars, u2 logs it with 2 stars *)
ZeroRatingRequests ==
    {<<"u1", [tmdbId |-> 550, mediaType |-> "movie", rating |-> 0]>>,
     <<"u1", [tmdbId |-> 550, mediaType |-> "movie", rating |-> 2 * RatingScale]>>,
     <<"u2", [tmdbId |-> 550, mediaType |-> "movie", rating |-> 2 * RatingScale]>>}

(* The POST /media-logs requests of the slow-call and of the failure
   specification: every user logs movie 603 *)
OneTitleRequests == {<<u, [tmdbId |-> 603, mediaType |-> "movie"]>> : u \in Users}

(* The :movieId path parameters of GET /matches/movie/:movieId, as sequences
   of characters: two numeric ones, and three that are not numeric *)
MovieIdParams ==
    { <<"6", "0", "3">>,
      <<"5", "5", "0">>,
      <<"a", "b", "c">>,
      <<"6", "0", "3", "a">>,
      <<"x", "6", "0", "3">> }

(* The requests of the media-logs specification.  POST /media-logs: u1 and u2
   log movie 603, unrated or with 2 stars.  PUT /media-logs/:logId: bodies
   with and without an editable field, with and without a watchedAt *)
ServiceRequests ==
    {<<u, [tmdbId |-> 603, mediaType |-> "movie"] @@ r>> :
        u \in RatingUsers, r \in OptField("rating", {2 * RatingScale})}

UpdateBodies ==
    { NoFields,
      "watchedAt" :> 1,
      "rating" :> 3 * RatingScale,
      ("rating" :> 3 * RatingScale) @@ ("watchedAt" :> 1),
      "notes" :> "rewatch" }

(* The :logId parameters: the ids given out so far and one that was not *)
LogIds == 1..(MaxServiceLogs + 1)

(* The maxDaysAgo query strings of the specification with the longer clock *)
AgeInputs == OptField("maxDaysAgo", {0, 1})

(* The limit query strings parseInt turns into an integer: "-1", "0", "1", "2" *)
LimitInputs == OptField("limit", {-1, 0, 1, 2})

(* The query strings of GET /matches the main specification draws from *)
FilterInputs ==
    { NoFields,
      "limit" :> 1,
      "limit" :> 0,
      "maxDaysAgo" :> 0 }

RatingFilterInputs ==
    { NoFields,
      "minRating" :> 1,
      "minRating" :> (4 * RatingScale + 1),
      ("minRating" :> (3 * RatingScale)) @@ ("limit" :> 1) }

----------------------------------------------------------------------------
(* State *)

VARIABLES
    clock,        \* the wall clock, in ticks
    media_logs,   \* collection media_logs, in creation order
    nextLogId,    \* the next document id of media_logs
    media_cache,  \* collection media_cache: document key -> document
    users,        \* collection users: uid -> profile document
    call,         \* the finder invocation being answered: its request and its response
    pending,      \* the invocations in progress: their local variables, by invocation
    chats         \* collection chats, in creation order

vars == <<clock, media_logs, nextLogId, media_cache, users, call, pending, chats>>

(* The requests the server can have in progress at the same time *)
Invocations == {1, 2}

(* An invocation that has not started *)
Idle == [pc |-> "idle", potentialMatches |-> <<>>]

NoCall == [op |-> "none"]

(* The profile documents UsersService.createUser wrote for u1 and u2; the
   document of u3 was removed by UsersService.deleteUser, which leaves the
   user's token valid and the user's logs in place *)
RegisteredUsers ==
    ("u1" :> [displayName |-> "User One", photoURL |-> "https://img/u1.png"])
        @@ ("u2" :> [displayName |-> "User Two", photoURL |-> ""])

Init ==
    /\ clock = 0
    /\ media_logs = <<>>
    /\ nextLogId = 1
    /\ media_cache = NoFields
    /\ users = RegisteredUsers
    /\ call = NoCall
    /\ pending = [inv \in Invocations |-> Idle]
    /\ chats = <<>>

----------------------------------------------------------------------------
(* Helpers *)

Min(a, b) == IF a <= b THEN a ELSE b
Max(a, b) == IF a >= b THEN a ELSE b
Abs(x) == IF x < 0 THEN -x ELSE x

Reverse(s) == [i \in 1..Len(s) |-> s[Len(s) + 1 - i]]

(* JavaScript truthiness of an optional number field: undefined and 0 are falsy *)
Truthy(rec, name) == name \in DOMAIN rec /\ rec[name] # 0

----------------------------------------------------------------------------
(* TMDb and the media cache *)

(* What the TMDb API answers for a movie id; poster_path is null for 603 *)
getMovieDetails(tmdbId) ==
    [id |-> tmdbId, title |-> "movie " \o ToString(tmdbId)]
        @@ (IF tmdbId = 550 THEN "poster_path" :> "/550.jpg" ELSE NoFields)

getTVShowDetails(tmdbId) ==
    [id |-> tmdbId, name |-> "show " \o ToString(tmdbId)]

(* `${movie.id}_movie` and the document written under it *)
saveMovieToCache(cache, movie) ==
    LET mediaKey == ToString(movie.id) \o "_movie"
        cacheData == [tmdbId |-> movie.id,
                      mediaType |-> "movie",
                      title |-> movie.title,
                      posterPath |-> IF "poster_path" \in DOMAIN movie
                                     THEN movie.poster_path ELSE ""]
    IN  (mediaKey :> cacheData) @@ cache

saveTVShowToCache(cache, tvShow) ==
    LET mediaKey == ToString(tvShow.id) \o "_tv"
        cacheData == [tmdbId |-> tvShow.id,
                      mediaType |-> "tv",
                      title |-> tvShow.name,
                      posterPath |-> ""]
    IN  (mediaKey :> cacheData) @@ cache

(* `${tmdbId}_${mediaType}` *)
getCachedMediaKey(tmdbId, mediaType) == ToString(tmdbId) \o "_" \o mediaType

ensureMediaInCache(cache, tmdbId, mediaType) ==
    IF getCachedMediaKey(tmdbId, mediaType) \in DOMAIN cache
    THEN cache
    ELSE IF mediaType = "movie"
         THEN saveMovieToCache(cache, getMovieDetails(tmdbId))
         ELSE saveTVShowToCache(cache, getTVShowDetails(tmdbId))

----------------------------------------------------------------------------
(* MediaLogsService.logMediaView *)

newLog(userId, logData) ==
    [id |-> nextLogId,
     userId |-> userId,
     tmdbId |-> logData.tmdbId,
     mediaType |-> logData.mediaType,
     watchedAt |-> clock]
        @@ (IF "rating" \in DOMAIN logData THEN "rating" :> logData.rating ELSE NoFields)

LogMediaView(userId, logData, maxLogs) ==
    /\ Len(media_logs) < maxLogs
    /\ media_cache' = ensureMediaInCache(media_cache, logData.tmdbId, logData.mediaType)
    /\ media_logs' = Append(media_logs, newLog(userId, logData))
    /\ nextLogId' = nextLogId + 1
    /\ call' = NoCall
    /\ UNCHANGED <<clock, users, pending, chats>>

(* The wall clock advances *)
Tick ==
    /\ clock < MaxClock
    /\ clock' = clock + 1
    /\ call' = NoCall
    /\ UNCHANGED <<media_logs, nextLogId, media_cache, users, pending, chats>>

(* The wall clock advances, up to maxClock *)
Elapse(maxClock) ==
    /\ clock < maxClock
    /\ clock' = clock + 1
    /\ call' = NoCall
    /\ UNCHANGED <<media_logs, nextLogId, media_cache, users, pending, chats>>

----------------------------------------------------------------------------
(* MediaLogsService.getLogById, updateLog, deleteLog *)

(* firestore.collection('media_logs').doc(logId).get(): no document or one *)
logDoc(logId) == SelectSeq(media_logs, LAMBDA log : log.id = logId)

(* Mutant: every authenticated user passes the owner check *)
isOwner_anyone(log, userId) == TRUE

(* log.userId !== userId throws ForbiddenException *)
isOwner(log, userId) == log.userId = userId

UpdatableFields == {"rating", "review", "reviewLang", "notes"}

(* Mutant: the whole request body is written to the document *)
updatesOf_wholeBody(updateData) == updateData

(* Mutant: a body without a rating resets the rating to 0 *)
updatesOf_ratingDefaulted(updateData) ==
    [k \in DOMAIN updateData \cap UpdatableFields |-> updateData[k]]
        @@ ("rating" :> 0)

(* const updates: Partial<MediaLog> = {}; if (updateData.x !== undefined) updates.x = .. *)
updatesOf(updateData) ==
    [k \in DOMAIN updateData \cap UpdatableFields |-> updateData[k]]

(* The outcome of getLogById: the response, and the collection after it *)
getLogById(logId, currentUserId) ==
    LET doc == logDoc(logId)
    IN  [media_logs |-> media_logs,
         response |-> IF doc = <<>> THEN [error |-> "NotFound"]
                      ELSE IF ~isOwner(doc[1], currentUserId) THEN [error |-> "Forbidden"]
                      ELSE doc[1]]

(* The outcome of updateLog *)
updateLog(logId, userId, updateData, now) ==
    LET updates == updatesOf(updateData)
        doc == logDoc(logId)
        updated == (updates @@ ("updatedAt" :> now)) @@ doc[1]
    IN  IF DOMAIN updates = {}
        THEN [media_logs |-> media_logs, response |-> [error |-> "BadRequest"]]
        ELSE IF doc = <<>>
        THEN [media_logs |-> media_logs, response |-> [error |-> "NotFound"]]
        ELSE IF ~isOwner(doc[1], userId)
        THEN [media_logs |-> media_logs, response |-> [error |-> "Forbidden"]]
        ELSE [media_logs |-> [i \in DOMAIN media_logs |->
                                 IF media_logs[i].id = logId THEN updated
                                 ELSE media_logs[i]],
              response |-> updated]

(* The outcome of deleteLog; updateUserStats only reads *)
deleteLog(logId, userId) ==
    LET doc == logDoc(logId)
    IN  IF doc = <<>>
        THEN [media_logs |-> media_logs, response |-> [error |-> "NotFound"]]
        ELSE IF ~isOwner(doc[1], userId)
        THEN [media_logs |-> media_logs, response |-> [error |-> "Forbidden"]]
        ELSE [media_logs |-> SelectSeq(media_logs, LAMBDA log : log.id # logId),
              response |-> NoFields]

(* GET /media-logs/:logId *)
GetLogById(logId, userId) ==
    /\ call = NoCall
    /\ call' = [op |-> "getLogById", logId |-> logId, userId |-> userId,
                response |-> getLogById(logId, userId).response]
    /\ media_logs' = getLogById(logId, userId).media_logs
    /\ UNCHANGED <<clock, nextLogId, media_cache, users, pending, chats>>

(* PUT /media-logs/:logId *)
UpdateLog(logId, userId, updateData) ==
    /\ call = NoCall
    /\ call' = [op |-> "updateLog", logId |-> logId, userId |-> userId,
                body |-> updateData,
                response |-> updateLog(logId, userId, updateData, clock).response]
    /\ media_logs' = updateLog(logId, userId, updateData, clock).media_logs
    /\ UNCHANGED <<clock, nextLogId, media_cache, users, pending, chats>>

(* DELETE /media-logs/:logId *)
DeleteLog(logId, userId) ==
    /\ call = NoCall
    /\ call' = [op |-> "deleteLog", logId |-> logId, userId |-> userId,
                response |-> deleteLog(logId, userId).response]
    /\ media_logs' = deleteLog(logId, userId).media_logs
    /\ UNCHANGED <<clock, nextLogId, media_cache, users, pending, chats>>

----------------------------------------------------------------------------
(* MatchesService.findPotentialMatches *)

NoReads == [media_logs |-> 0, users |-> 0, media_cache |-> 0]

(* const { maxDaysAgo = 30, minRating = 0, limit = 50 } = filters *)
maxDaysAgoOf(filters) ==
    IF "maxDaysAgo" \in DOMAIN filters THEN filters.maxDaysAgo ELSE DefaultMaxDaysAgo
minRatingOf(filters) ==
    IF "minRating" \in DOMAIN filters THEN filters.minRating ELSE DefaultMinRating
limitOf(filters) ==
    IF "limit" \in DOMAIN filters THEN filters.limit ELSE DefaultLimit

(* cutoffDate.setDate(cutoffDate.getDate() - maxDaysAgo): maxDaysAgo calendar
   days before now, taken as maxDaysAgo days of TicksPerDay ticks *)
cutoffTimestamp(now, maxDaysAgo) == now - maxDaysAgo * TicksPerDay

(* Mutant: the requester's views are not restricted to the recent ones *)
getRecentMovies_noCutoff(userId, cutoff) ==
    Reverse(SelectSeq(media_logs,
        LAMBDA log : log.userId = userId /\ log.mediaType = "movie"))

(* where userId == .. mediaType == 'movie' watchedAt >= cutoff, orderBy watchedAt desc *)
getRecentMovies(userId, cutoff) ==
    Reverse(SelectSeq(media_logs,
        LAMBDA log : /\ log.userId = userId
                     /\ log.mediaType = "movie"
                     /\ log.watchedAt >= cutoff))

(* Mutant: views of every media type are candidates *)
otherUsersLogs_anyMediaType(tmdbId, cutoff) ==
    SelectSeq(media_logs,
        LAMBDA log : log.tmdbId = tmdbId /\ log.watchedAt >= cutoff)

(* Mutant: the candidate views are not restricted to the recent ones *)
otherUsersLogs_noCutoff(tmdbId, cutoff) ==
    SelectSeq(media_logs,
        LAMBDA log : log.tmdbId = tmdbId /\ log.mediaType = "movie")

(* where tmdbId == .. mediaType == 'movie' watchedAt >= cutoff (ascending watchedAt) *)
otherUsersLogs(tmdbId, cutoff) ==
    SelectSeq(media_logs,
        LAMBDA log : /\ log.tmdbId = tmdbId
                     /\ log.mediaType = "movie"
                     /\ log.watchedAt >= cutoff)

(* Mutant: the self check is missing *)
isSameUser_never(otherLog, userId) == FALSE

(* if (otherLog.userId === userId) continue *)
isSameUser(otherLog, userId) == otherLog.userId = userId

(* Mutant: an unrated candidate passes the minRating filter *)
failsMinRating_unratedPasses(otherLog, minRating) ==
    minRating > 0 /\ "rating" \in DOMAIN otherLog /\ otherLog.rating < minRating

(* if (minRating > 0 && (!otherLog.rating || otherLog.rating < minRating)) continue *)
failsMinRating(otherLog, minRating) ==
    minRating > 0 /\ (~Truthy(otherLog, "rating") \/ otherLog.rating < minRating)

(* if (myLog.rating && otherLog.rating) { if (Math.abs(..) > 1) continue } *)
ratingDifference(myLog, otherLog) == Abs(myLog.rating - otherLog.rating)

(* Mutant: a pair with an unrated side is rejected outright *)
ratingsTooFarApart_unratedRejected(myLog, otherLog) ==
    \/ ~Truthy(myLog, "rating")
    \/ ~Truthy(otherLog, "rating")
    \/ Abs(myLog.rating - otherLog.rating) > 1 * RatingScale

ratingsTooFarApart(myLog, otherLog) ==
    /\ Truthy(myLog, "rating") /\ Truthy(otherLog, "rating")
    /\ ratingDifference(myLog, otherLog) > 1 * RatingScale

(* Mutant: the duplicate check is missing *)
existingMatch_never(potentialMatches, otherLog, myLog) == FALSE

(* potentialMatches.find(m => m.userId === otherLog.userId && m.movieId === myLog.tmdbId) *)
existingMatch(potentialMatches, otherLog, myLog) ==
    \E i \in 1..Len(potentialMatches) :
        /\ potentialMatches[i].userId = otherLog.userId
        /\ potentialMatches[i].movieId = myLog.tmdbId

(* What happens around an invocation while it runs: the readings Date.now()
   gives in the loop, and the store read that fails, counted from 1 in the
   order the reads are issued (0: none fails), with the error it rejects with *)
StillRun(now) == [dateNow |-> <<now>>, failAt |-> 0, error |-> "none"]

ReadsIssued(reads) == reads.media_logs + reads.users + reads.media_cache

(* Mutant: a read that fails is issued again, and the second attempt succeeds *)
storeRead_retried(acc, collection, run) ==
    LET issued == [acc EXCEPT !.reads[collection] = @ + 1]
    IN  IF ReadsIssued(issued.reads) = run.failAt
        THEN [acc EXCEPT !.reads[collection] = @ + 2]
        ELSE issued

(* await <query or document>.get(): the read is issued once, and a rejection
   is thrown out of the method, which has no try/catch *)
storeRead(acc, collection, run) ==
    LET issued == [acc EXCEPT !.reads[collection] = @ + 1]
    IN  IF ReadsIssued(issued.reads) = run.failAt
        THEN ("error" :> run.error) @@ issued
        ELSE issued

Thrown(acc) == "error" \in DOMAIN acc

(* The rejection the caller of the async method gets *)
rejected(acc) == [error |-> acc.error, reads |-> acc.reads]

(* Date.now() at the k-th match of an invocation.  dateNow lists the readings
   the clock gives while the loop runs, each taken after the awaited store
   reads that precede it; the last one stands for all later readings *)
DateNow(dateNow, k) == dateNow[Min(k, Len(dateNow))]

(* Math.floor((Date.now() - watchedAt.toMillis()) / (1000 * 60 * 60 * 24)) *)
daysAgoOf(now, watchedAt) == (now - watchedAt) \div TicksPerDay

(* `movie_${tmdbId}` *)
movieCacheKey(tmdbId) == "movie_" \o ToString(tmdbId)

(* movieCache.data(): movieTitle: movieData?.title, moviePosterPath: movieData?.posterPath *)
movieData(tmdbId) ==
    IF movieCacheKey(tmdbId) \in DOMAIN media_cache
    THEN [movieTitle |-> media_cache[movieCacheKey(tmdbId)].title,
          moviePosterPath |-> media_cache[movieCacheKey(tmdbId)].posterPath]
    ELSE NoFields

(* Mutant: a missing profile is replaced by a placeholder *)
userData_placeholder(uid) ==
    IF uid \in DOMAIN users
    THEN [displayName |-> users[uid].displayName, photoURL |-> users[uid].photoURL]
    ELSE [displayName |-> "Unknown", photoURL |-> ""]

(* userDoc.data(): displayName: userData?.displayName, photoURL: userData?.photoURL *)
userData(uid) ==
    IF uid \in DOMAIN users
    THEN [displayName |-> users[uid].displayName, photoURL |-> users[uid].photoURL]
    ELSE NoFields

ratingField(name, log) ==
    IF "rating" \in DOMAIN log THEN name :> log.rating ELSE NoFields

(* Mutant: the two viewing times are written to each other's field *)
potentialMatch_timesSwapped(myLog, otherLog, now) ==
    [userId |-> otherLog.userId,
     movieId |-> myLog.tmdbId,
     theirWatchedAt |-> myLog.watchedAt,
     myWatchedAt |-> otherLog.watchedAt,
     daysAgo |-> daysAgoOf(now, otherLog.watchedAt)]
        @@ userData(otherLog.userId)
        @@ movieData(myLog.tmdbId)
        @@ ratingField("myRating", myLog)
        @@ ratingField("theirRating", otherLog)

(* The object pushed on potentialMatches *)
potentialMatch(myLog, otherLog, now) ==
    [userId |-> otherLog.userId,
     movieId |-> myLog.tmdbId,
     theirWatchedAt |-> otherLog.watchedAt,
     myWatchedAt |-> myLog.watchedAt,
     daysAgo |-> daysAgoOf(now, otherLog.watchedAt)]
        @@ userData(otherLog.userId)
        @@ movieData(myLog.tmdbId)
        @@ ratingField("myRating", myLog)
        @@ ratingField("theirRating", otherLog)

(* for (const doc of otherUsersLogs.docs) { .. } *)
RECURSIVE candidateLoop(_, _, _, _, _, _)
candidateLoop(userId, minRating, run, myLog, docs, acc) ==
    IF docs = <<>> \/ Thrown(acc) THEN acc
    ELSE LET otherLog == Head(docs)
             skip == \/ isSameUser(otherLog, userId)
                     \/ failsMinRating(otherLog, minRating)
                     \/ ratingsTooFarApart(myLog, otherLog)
                     \/ existingMatch(acc.potentialMatches, otherLog, myLog)
             userDoc == storeRead(acc, "users", run)
             movieCache == storeRead(userDoc, "media_cache", run)
             next == IF skip THEN acc
                     ELSE IF Thrown(userDoc) THEN userDoc
                     ELSE IF Thrown(movieCache) THEN movieCache
                     ELSE [movieCache EXCEPT !.potentialMatches =
                               Append(@, potentialMatch(myLog, otherLog,
                                          DateNow(run.dateNow,
                                                  Len(acc.potentialMatches) + 1)))]
         IN  candidateLoop(userId, minRating, run, myLog, Tail(docs), next)

(* for (const myLog of myRecentMovies) { .. } *)
RECURSIVE myLogLoop(_, _, _, _, _, _)
myLogLoop(userId, minRating, run, cutoff, myLogs, acc) ==
    IF myLogs = <<>> \/ Thrown(acc) THEN acc
    ELSE LET myLog == Head(myLogs)
             queried == storeRead(acc, "media_logs", run)
         IN  myLogLoop(userId, minRating, run, cutoff, Tail(myLogs),
                       candidateLoop(userId, minRating, run, myLog,
                                     otherUsersLogs(myLog.tmdbId, cutoff), queried))

(* Mutant: an element is put before the elements it ties with *)
RECURSIVE insertByDaysAgo_beforeEquals(_, _)
insertByDaysAgo_beforeEquals(sorted, m) ==
    IF sorted = <<>> THEN <<m>>
    ELSE IF Head(sorted).daysAgo < m.daysAgo
         THEN <<Head(sorted)>> \o insertByDaysAgo_beforeEquals(Tail(sorted), m)
         ELSE <<m>> \o sorted

(* potentialMatches.sort((a, b) => a.daysAgo - b.daysAgo): a stable sort *)
RECURSIVE insertByDaysAgo(_, _)
insertByDaysAgo(sorted, m) ==
    IF sorted = <<>> THEN <<m>>
    ELSE IF Head(sorted).daysAgo <= m.daysAgo
         THEN <<Head(sorted)>> \o insertByDaysAgo(Tail(sorted), m)
         ELSE <<m>> \o sorted

(* Mutant: the list is returned in accumulation order *)
sortByDaysAgo_unsorted(matches) == matches

RECURSIVE sortByDaysAgo(_)
sortByDaysAgo(matches) ==
    IF matches = <<>> THEN <<>>
    ELSE insertByDaysAgo(sortByDaysAgo(SubSeq(matches, 1, Len(matches) - 1)),
                         matches[Len(matches)])

(* Mutant: the limit is off by one *)
slice_oneMore(arr, end) == SubSeq(arr, 1, Min(Max(end, 0) + 1, Len(arr)))

(* Array.prototype.slice(0, end) for an integer end: a negative end counts
   from the end of the array *)
slice(arr, end) ==
    LET last == IF end < 0 THEN Max(Len(arr) + end, 0) ELSE Min(end, Len(arr))
    IN  SubSeq(arr, 1, last)

(* The response {matches, total}, with the list before the limit, the list
   before the sort and the store reads issued; or the rejection *)
findPotentialMatchesAt(userId, filters, now, run) ==
    LET cutoff == cutoffTimestamp(now, maxDaysAgoOf(filters))
        myRecentMovies == getRecentMovies(userId, cutoff)
        first == storeRead([potentialMatches |-> <<>>, reads |-> NoReads], "media_logs", run)
    IN  IF Thrown(first) THEN rejected(first)
        ELSE IF Len(myRecentMovies) = 0
        THEN [matches |-> <<>>, total |-> 0, potentialMatches |-> <<>>,
              accumulated |-> <<>>, reads |-> first.reads]
        ELSE LET acc == myLogLoop(userId, minRatingOf(filters), run, cutoff,
                                  myRecentMovies, first)
                 sorted == sortByDaysAgo(acc.potentialMatches)
             IN  IF Thrown(acc) THEN rejected(acc)
                 ELSE [matches |-> slice(sorted, limitOf(filters)),
                       total |-> Len(sorted),
                       potentialMatches |-> sorted,
                       accumulated |-> acc.potentialMatches,
                       reads |-> acc.reads]

(* The invocation during which the clock stands still and no read fails:
   every Date.now() gives the reading of new Date() *)
findPotentialMatches(userId, filters, now) ==
    findPotentialMatchesAt(userId, filters, now, StillRun(now))

(* GET /matches.  The handler is taken at one reading of the clock: the views
   are strictly ordered in time by their place in media_logs, so the ticks
   only have to tell the days apart. *)
FindPotentialMatches(userId, filters) ==
    /\ call = NoCall
    /\ call' = [op |-> "findPotentialMatches",
                userId |-> userId,
                filters |-> filters,
                now |-> clock,
                response |-> findPotentialMatches(userId, filters, clock)]
    /\ UNCHANGED <<clock, media_logs, nextLogId, media_cache, users, pending, chats>>

----------------------------------------------------------------------------
(* MatchesService.getMatchesForMovie *)

(* Mutant: the latest view of the title by any user stands for the requester's *)
myLogOf_anyUser(userId, movieId) ==
    LET all == Reverse(SelectSeq(media_logs,
                   LAMBDA log : log.tmdbId = movieId /\ log.mediaType = "movie"))
    IN  SubSeq(all, 1, Min(1, Len(all)))

(* where userId == .. tmdbId == .. mediaType == 'movie', orderBy watchedAt desc, limit 1 *)
myLogOf(userId, movieId) ==
    LET all == Reverse(SelectSeq(media_logs,
                   LAMBDA log : /\ log.userId = userId
                                /\ log.tmdbId = movieId
                                /\ log.mediaType = "movie"))
    IN  SubSeq(all, 1, Min(1, Len(all)))

(* The object pushed on matches *)
movieMatch(movieId, myWatchedAt, log, now) ==
    [userId |-> log.userId,
     movieId |-> movieId,
     theirWatchedAt |-> log.watchedAt,
     myWatchedAt |-> myWatchedAt,
     daysAgo |-> daysAgoOf(now, log.watchedAt)]
        @@ userData(log.userId)
        @@ movieData(movieId)

(* for (const doc of otherUsersLogs.docs) { .. } *)
RECURSIVE movieLoop(_, _, _, _, _, _)
movieLoop(userId, movieId, myWatchedAt, run, docs, acc) ==
    IF docs = <<>> \/ Thrown(acc) THEN acc
    ELSE LET log == Head(docs)
             userDoc == storeRead(acc, "users", run)
             movieCache == storeRead(userDoc, "media_cache", run)
             next == IF isSameUser(log, userId) THEN acc
                     ELSE IF Thrown(userDoc) THEN userDoc
                     ELSE IF Thrown(movieCache) THEN movieCache
                     ELSE [movieCache EXCEPT !.matches =
                               Append(@, movieMatch(movieId, myWatchedAt, log,
                                          DateNow(run.dateNow, Len(acc.matches) + 1)))]
         IN  movieLoop(userId, movieId, myWatchedAt, run, Tail(docs), next)

(* The returned list, with the store reads issued; or the rejection *)
getMatchesForMovieAt(userId, movieId, maxDaysAgo, now, run) ==
    LET cutoff == cutoffTimestamp(now, maxDaysAgo)
        myLog == myLogOf(userId, movieId)
        first == storeRead([matches |-> <<>>, reads |-> NoReads], "media_logs", run)
        second == storeRead(first, "media_logs", run)
    IN  IF Thrown(first) THEN rejected(first)
        ELSE IF myLog = <<>> THEN [matches |-> <<>>, reads |-> first.reads]
        ELSE LET acc == movieLoop(userId, movieId, myLog[1].watchedAt, run,
                                  otherUsersLogs(movieId, cutoff), second)
             IN  IF Thrown(acc) THEN rejected(acc)
                 ELSE [matches |-> sortByDaysAgo(acc.matches), reads |-> acc.reads]

(* Mutant: the single-title finder is the multi-title finder restricted to the title *)
getMatchesForMovie_deduplicated(userId, movieId, maxDaysAgo, now) ==
    LET found == findPotentialMatches(userId, "maxDaysAgo" :> maxDaysAgo, now)
    IN  [matches |-> SelectSeq(found.potentialMatches, LAMBDA m : m.movieId = movieId),
         reads |-> found.reads]

(* The invocation during which the clock stands still and no read fails *)
getMatchesForMovie(userId, movieId, maxDaysAgo, now) ==
    getMatchesForMovieAt(userId, movieId, maxDaysAgo, now, StillRun(now))

(* GET /matches/movie/:movieId, maxDaysAgo ? parseInt(maxDaysAgo) : undefined *)
GetMatchesForMovie(userId, movieId, query) ==
    /\ call = NoCall
    /\ call' = [op |-> "getMatchesForMovie",
                userId |-> userId,
                movieId |-> movieId,
                filters |-> query,
                now |-> clock,
                response |-> getMatchesForMovie(userId, movieId, maxDaysAgoOf(query), clock)]
    /\ UNCHANGED <<clock, media_logs, nextLogId, media_cache, users, pending, chats>>

(* The readings Date.now() can give in the loop of an invocation that starts
   at `from`: the clock does not run backwards, and at most one match is
   pushed for each view of another user *)
LaterReadings(from, maxPushes) ==
    {r \in [1..maxPushes -> from..MaxClock] :
        \A i, j \in 1..maxPushes : i <= j => r[i] <= r[j]}

(* The invocations during which the clock runs and no read fails *)
SlowRuns(from, maxPushes) ==
    {[dateNow |-> r, failAt |-> 0, error |-> "none"] : r \in LaterReadings(from, maxPushes)}

(* The status codes a Firestore read rejects with when the store is unavailable *)
StoreErrors == {"UNAVAILABLE", "DEADLINE_EXCEEDED"}

(* The invocations during which one of the first maxReads store reads fails *)
FailingRuns(now, maxReads) ==
    {[dateNow |-> <<now>>, failAt |-> k, error |-> e] :
        k \in 1..maxReads, e \in StoreErrors}

(* Mutant: the finder fills the media cache under the key it reads *)
FindPotentialMatchesAt_caching(userId, filters, run) ==
    /\ call = NoCall
    /\ call' = [op |-> "findPotentialMatches",
                userId |-> userId,
                filters |-> filters,
                now |-> clock,
                run |-> run,
                response |-> findPotentialMatchesAt(userId, filters, clock, run)]
    /\ clock' = run.dateNow[Len(run.dateNow)]
    /\ media_cache' = (movieCacheKey(603) :> [title |-> "movie 603", posterPath |-> ""])
                          @@ media_cache
    /\ UNCHANGED <<media_logs, nextLogId, users, pending, chats>>

(* GET /matches answered while the clock runs and the store can fail: the
   awaited store reads take time *)
FindPotentialMatchesAt(userId, filters, run) ==
    /\ call = NoCall
    /\ call' = [op |-> "findPotentialMatches",
                userId |-> userId,
                filters |-> filters,
                now |-> clock,
                run |-> run,
                response |-> findPotentialMatchesAt(userId, filters, clock, run)]
    /\ clock' = run.dateNow[Len(run.dateNow)]
    /\ UNCHANGED <<media_logs, nextLogId, media_cache, users, pending, chats>>

(* GET /matches/movie/:movieId answered while the clock runs and the store can fail *)
GetMatchesForMovieAt(userId, movieId, query, run) ==
    /\ call = NoCall
    /\ call' = [op |-> "getMatchesForMovie",
                userId |-> userId,
                movieId |-> movieId,
                filters |-> query,
                now |-> clock,
                run |-> run,
                response |-> getMatchesForMovieAt(userId, movieId, maxDaysAgoOf(query),
                                                  clock, run)]
    /\ clock' = run.dateNow[Len(run.dateNow)]
    /\ UNCHANGED <<media_logs, nextLogId, media_cache, users, pending, chats>>

(* Number.NaN: it equals no number, so it is taken as a value that no digit
   string parses to and no log carries as tmdbId *)
NaN == -1

Digits == <<"0", "1", "2", "3", "4", "5", "6", "7", "8", "9">>

IsDigit(c) == \E d \in 1..Len(Digits) : Digits[d] = c

DigitValue(c) == (CHOOSE d \in 1..Len(Digits) : Digits[d] = c) - 1

RECURSIVE parseDigits(_, _, _)
parseDigits(chars, value, seen) ==
    IF chars = <<>> \/ ~IsDigit(Head(chars))
    THEN IF seen THEN value ELSE NaN
    ELSE parseDigits(Tail(chars), value * 10 + DigitValue(Head(chars)), TRUE)

(* parseInt(string) of a string without white space, sign or 0x prefix: the
   value of the longest prefix of decimal digits, NaN when there is none *)
parseInt(chars) == parseDigits(chars, 0, FALSE)

(* GET /matches/movie/:movieId as the controller takes it from the route:
   parseInt(movieId) goes to the service unchecked *)
GetMatchesForMovieParam(userId, movieId) ==
    /\ call = NoCall
    /\ call' = [op |-> "getMatchesForMovie",
                userId |-> userId,
                movieIdParam |-> movieId,
                movieId |-> parseInt(movieId),
                filters |-> NoFields,
                now |-> clock,
                response |-> getMatchesForMovie(userId, parseInt(movieId),
                                                maxDaysAgoOf(NoFields), clock)]
    /\ UNCHANGED <<clock, media_logs, nextLogId, media_cache, users, pending, chats>>

(* The response is handed to the caller; the next request can be served *)
Respond ==
    /\ call # NoCall
    /\ call' = NoCall
    /\ UNCHANGED <<clock, media_logs, nextLogId, media_cache, users, pending, chats>>

----------------------------------------------------------------------------
(* MatchesService.findPotentialMatches, one awaited store read at a time.  The
   server runs the invocations on one thread and switches between them at the
   awaits *)

(* Mutant: the list is a field of the service instance, shared by the invocations *)
frameOf_shared(inv) == 1

(* const potentialMatches: PotentialMatch[] = [] is a local of the invocation *)
frameOf(inv) == inv

accumulatedIn(frames, inv) == frames[frameOf(inv)].potentialMatches

InProgress(f) == f.pc \notin {"idle", "done"}

(* The candidates left from the first one that is not skipped *)
RECURSIVE skipCandidates(_, _, _, _, _)
skipCandidates(userId, minRating, myLog, docs, potentialMatches) ==
    IF docs = <<>> THEN <<>>
    ELSE IF \/ isSameUser(Head(docs), userId)
            \/ failsMinRating(Head(docs), minRating)
            \/ ratingsTooFarApart(myLog, Head(docs))
            \/ existingMatch(potentialMatches, Head(docs), myLog)
         THEN skipCandidates(userId, minRating, myLog, Tail(docs), potentialMatches)
         ELSE docs

(* return { matches: limitedMatches, total: potentialMatches.length } *)
returned(f, potentialMatches) ==
    [f EXCEPT !.pc = "done",
              !.myLogs = <<>>,
              !.docs = <<>>,
              !.response = [matches |-> slice(sortByDaysAgo(potentialMatches),
                                              limitOf(f.filters)),
                            total |-> Len(potentialMatches)]]

(* The code that runs up to the next await: candidates are skipped, the loops
   are left when they are exhausted, the list is sorted and cut *)
advance(f, potentialMatches) ==
    LET rest == skipCandidates(f.userId, minRatingOf(f.filters), Head(f.myLogs),
                               f.docs, potentialMatches)
    IN  IF rest # <<>> THEN [f EXCEPT !.pc = "userDoc", !.docs = rest]
        ELSE IF Len(f.myLogs) > 1
             THEN [f EXCEPT !.pc = "getOtherUsersLogs", !.myLogs = Tail(@), !.docs = <<>>]
             ELSE returned(f, potentialMatches)

(* Another invocation is between two of its awaits *)
Overlaps(inv) ==
    \E other \in Invocations \ {inv} :
        InProgress(pending[other]) /\ pending[other].pc # "getRecentMovies"

(* GET /matches arrives: the method runs up to its first await *)
StartFind(inv, userId, filters) ==
    /\ pending[inv].pc = "idle"
    /\ pending' = [pending EXCEPT ![inv] =
                       [pc |-> "getRecentMovies",
                        userId |-> userId,
                        filters |-> filters,
                        now |-> clock,
                        myLogs |-> <<>>,
                        docs |-> <<>>,
                        potentialMatches |-> <<>>,
                        response |-> NoFields,
                        interleaved |-> FALSE]]
    /\ UNCHANGED <<clock, media_logs, nextLogId, media_cache, users, call, chats>>

(* An awaited read of the invocation completes, and the method runs up to
   its next await or to its return *)
StepFind(inv) ==
    LET f == [pending[inv] EXCEPT !.interleaved = @ \/ Overlaps(inv)]
        cutoff == cutoffTimestamp(f.now, maxDaysAgoOf(f.filters))
    IN  /\ InProgress(pending[inv])
        /\ pending' =
             CASE f.pc = "getRecentMovies" ->
                      LET myRecentMovies == getRecentMovies(f.userId, cutoff)
                      IN  [pending EXCEPT ![inv] =
                              IF Len(myRecentMovies) = 0
                              THEN [f EXCEPT !.pc = "done",
                                             !.response = [matches |-> <<>>, total |-> 0]]
                              ELSE [f EXCEPT !.pc = "getOtherUsersLogs",
                                             !.myLogs = myRecentMovies]]
               [] f.pc = "getOtherUsersLogs" ->
                      [pending EXCEPT ![inv] =
                          advance([f EXCEPT !.docs = otherUsersLogs(Head(f.myLogs).tmdbId,
                                                                     cutoff)],
                                  accumulatedIn(pending, inv))]
               [] f.pc = "userDoc" ->
                      [pending EXCEPT ![inv] = [f EXCEPT !.pc = "movieCache"]]
               [] f.pc = "movieCache" ->
                      LET pushed == [[pending EXCEPT ![inv] = f] EXCEPT
                                        ![frameOf(inv)].potentialMatches =
                                            Append(@, potentialMatch(Head(f.myLogs),
                                                                     Head(f.docs), f.now))]
                      IN  [pushed EXCEPT ![inv] =
                              advance([pushed[inv] EXCEPT !.docs = Tail(@)],
                                      accumulatedIn(pushed, inv))]
        /\ UNCHANGED <<clock, media_logs, nextLogId, media_cache, users, call, chats>>

----------------------------------------------------------------------------
(* ChatsService.createOrGetChat, one awaited store operation at a time *)

(* The order Array.prototype.sort puts the user ids in *)
sortOrder == <<"u1", "u2", "u3">>

sortIndex(userId) == CHOOSE i \in 1..Len(sortOrder) : sortOrder[i] = userId

(* const members = [currentUserId, recipientId].sort() *)
membersOf(currentUserId, recipientId) ==
    IF sortIndex(currentUserId) <= sortIndex(recipientId)
    THEN <<currentUserId, recipientId>>
    ELSE <<recipientId, currentUserId>>

(* chatsCollection.where('members', '==', members).limit(1).get() *)
existingChats(members) ==
    LET found == SelectSeq(chats, LAMBDA chat : chat.members = members)
    IN  IF found = <<>> THEN <<>> ELSE <<found[1]>>

(* The frame of an invocation that has returned or thrown *)
chatDone(f, response) == [f EXCEPT !.pc = "done", !.response = response]

(* POST /chats arrives with a body without initialMessage: the method runs
   up to its first await *)
StartChat(inv, currentUserId, recipientId) ==
    /\ pending[inv].pc = "idle"
    /\ LET f == [pc |-> "recipientDoc",
                 op |-> "createOrGetChat",
                 currentUserId |-> currentUserId,
                 recipientId |-> recipientId,
                 members |-> <<>>,
                 response |-> NoFields]
       IN  pending' = [pending EXCEPT ![inv] =
                          IF currentUserId = recipientId
                          THEN chatDone(f, [error |-> "BadRequest"])
                          ELSE f]
    /\ UNCHANGED <<clock, media_logs, nextLogId, media_cache, users, call, chats>>

(* The invocation resumes after the store operation it awaits and runs up to
   the next await or to its end *)
StepChat(inv) ==
    LET f == pending[inv]
    IN  /\ f.pc \in {"recipientDoc", "existingChats", "add"}
        /\ CASE f.pc = "recipientDoc" ->
                  /\ pending' = [pending EXCEPT ![inv] =
                         IF f.recipientId \notin DOMAIN users
                         THEN chatDone(f, [error |-> "NotFound"])
                         ELSE [f EXCEPT !.pc = "existingChats",
                                        !.members = membersOf(f.currentUserId, f.recipientId)]]
                  /\ chats' = chats
             [] f.pc = "existingChats" ->
                  /\ pending' = [pending EXCEPT ![inv] =
                         IF existingChats(f.members) # <<>>
                         THEN chatDone(f, [id |-> existingChats(f.members)[1].id,
                                           members |-> existingChats(f.members)[1].members])
                         ELSE [f EXCEPT !.pc = "add"]]
                  /\ chats' = chats
             [] f.pc = "add" ->
                  /\ chats' = Append(chats, [id |-> Len(chats) + 1, members |-> f.members])
                  /\ pending' = [pending EXCEPT ![inv] =
                         chatDone(f, [id |-> Len(chats) + 1, members |-> f.members])]
        /\ UNCHANGED <<clock, media_logs, nextLogId, media_cache, users, call>>

(* The response is sent and the invocation is over *)
ReturnChat(inv) ==
    /\ pending[inv].pc = "done"
    /\ pending' = [pending EXCEPT ![inv] = Idle]
    /\ UNCHANGED <<clock, media_logs, nextLogId, media_cache, users, call, chats>>

----------------------------------------------------------------------------
(* Specifications *)

Next ==
    \/ Tick
    \/ Respond
    \/ \E request \in LogRequests : LogMediaView(request[1], request[2], MaxLogs)
    \/ \E userId \in Requesters, filters \in FilterInputs :
           FindPotentialMatches(userId, filters)
    \/ \E userId \in Requesters, movieId \in TmdbIds, query \in OptField("maxDaysAgo", {0}) :
           GetMatchesForMovie(userId, movieId, query)

Spec == Init /\ [][Next]_vars

(* One title, two users, every rating of the documented range, a clock that stands still *)
NextRating ==
    \/ Respond
    \/ \E userId \in RatingUsers, logData \in RatingLogInputs :
           LogMediaView(userId, logData, MaxRatingLogs)
    \/ \E userId \in RatingUsers, filters \in RatingFilterInputs :
           FindPotentialMatches(userId, filters)

SpecRating == Init /\ [][NextRating]_vars

(* One title, a requester who rates it 0 stars or 2 stars, a candidate who rates it 2 stars *)
NextZeroRating ==
    \/ Tick
    \/ Respond
    \/ \E request \in ZeroRatingRequests :
           LogMediaView(request[1], request[2], MaxZeroRatingLogs)
    \/ \E userId \in Requesters : FindPotentialMatches(userId, NoFields)

SpecZeroRating == Init /\ [][NextZeroRating]_vars

(* One title, three users, and a clock that runs while a finder awaits the store *)
NextSlow ==
    \/ Tick
    \/ Respond
    \/ \E request \in OneTitleRequests : LogMediaView(request[1], request[2], MaxSlowLogs)
    \/ \E userId \in Requesters, run \in SlowRuns(clock, MaxSlowLogs - 1) :
           FindPotentialMatchesAt(userId, NoFields, run)
    \/ \E userId \in Requesters, run \in SlowRuns(clock, MaxSlowLogs - 1) :
           GetMatchesForMovieAt(userId, 603, NoFields, run)

SpecSlow == Init /\ [][NextSlow]_vars

(* One title, three users, and a store of which a read can fail: a finder
   over n views issues at most 2n reads *)
NextFailure ==
    \/ Respond
    \/ \E request \in OneTitleRequests :
           LogMediaView(request[1], request[2], MaxFailureLogs)
    \/ \E userId \in Requesters, run \in FailingRuns(clock, 2 * MaxFailureLogs) :
           FindPotentialMatchesAt(userId, NoFields, run)
    \/ \E userId \in Requesters, run \in FailingRuns(clock, 2 * MaxFailureLogs) :
           GetMatchesForMovieAt(userId, 603, NoFields, run)

SpecFailure == Init /\ [][NextFailure]_vars

(* One title, three users, and the :movieId parameter as the client sends it *)
NextParam ==
    \/ Respond
    \/ \E request \in OneTitleRequests :
           LogMediaView(request[1], request[2], MaxParamLogs)
    \/ \E userId \in Requesters, movieId \in MovieIdParams :
           GetMatchesForMovieParam(userId, movieId)

SpecParam == Init /\ [][NextParam]_vars

(* One title, three users, a clock that stands still, and two invocations of
   findPotentialMatches that start once the store no longer changes *)
NextConcurrent ==
    \/ \E request \in OneTitleRequests :
           /\ \A inv \in Invocations : pending[inv].pc = "idle"
           /\ LogMediaView(request[1], request[2], MaxConcurrentLogs)
    \/ \E inv \in Invocations, userId \in RatingUsers, filters \in OptField("limit", {1}) :
           StartFind(inv, userId, filters)
    \/ \E inv \in Invocations : StepFind(inv)

SpecConcurrent == Init /\ [][NextConcurrent]_vars

(* The media-logs service: two users log, read, edit and delete views of one title *)
NextService ==
    \/ Respond
    \/ \E request \in ServiceRequests :
           LogMediaView(request[1], request[2], MaxServiceLogs)
    \/ \E logId \in LogIds, userId \in RatingUsers : GetLogById(logId, userId)
    \/ \E logId \in LogIds, userId \in RatingUsers, updateData \in UpdateBodies :
           UpdateLog(logId, userId, updateData)
    \/ \E logId \in LogIds, userId \in RatingUsers : DeleteLog(logId, userId)

SpecService == Init /\ [][NextService]_vars

(* One title over more than two days: views of every age against windows of
   0 and 1 days and the default window *)
NextAge ==
    \/ Elapse(MaxAgeClock)
    \/ Respond
    \/ \E request \in OneTitleRequests :
           LogMediaView(request[1], request[2], MaxAgeLogs)
    \/ \E userId \in Requesters, filters \in AgeInputs :
           FindPotentialMatches(userId, filters)
    \/ \E userId \in Requesters, query \in AgeInputs :
           GetMatchesForMovie(userId, 603, query)

SpecAge == Init /\ [][NextAge]_vars

(* One title, every user, every sign of limit, a clock that stands still *)
NextLimit ==
    \/ Respond
    \/ \E request \in OneTitleRequests :
           LogMediaView(request[1], request[2], MaxLimitLogs)
    \/ \E userId \in RatingUsers, filters \in LimitInputs :
           FindPotentialMatches(userId, filters)

SpecLimit == Init /\ [][NextLimit]_vars

(* The chats service: two requests at a time, from any user to any user *)
NextChats ==
    \/ \E inv \in Invocations, currentUserId \in Users, recipientId \in Users :
           StartChat(inv, currentUserId, recipientId)
    \/ \E inv \in Invocations : StepChat(inv)
    \/ \E inv \in Invocations : ReturnChat(inv)

SpecChats == Init /\ [][NextChats]_vars

----------------------------------------------------------------------------
(* Properties of the finders *)

IsFind == call.op = "findPotentialMatches"
IsMovie == call.op = "getMatchesForMovie"

Views == {media_logs[i] : i \in 1..Len(media_logs)}

callCutoff == cutoffTimestamp(call.now, maxDaysAgoOf(call.filters))

(* A movie view the store returns for the cutoff of the invocation *)
RecentMovieView(log) == log.mediaType = "movie" /\ log.watchedAt >= callCutoff

Matches == call.response.matches

(* C1: every match returned by findPotentialMatches in which myRating and
   theirRating are both present has |myRating - theirRating| <= 1 star. *)
C1_RatingBand ==
    IsFind =>
        \A i \in 1..Len(Matches) :
            ("myRating" \in DOMAIN Matches[i] /\ "theirRating" \in DOMAIN Matches[i])
                => Abs(Matches[i].myRating - Matches[i].theirRating) <= 1 * RatingScale

(* C2: no match returned by findPotentialMatches or by getMatchesForMovie has
   the userId of the requesting user. *)
C2_SelfExclusion ==
    (IsFind \/ IsMovie) =>
        \A i \in 1..Len(Matches) : Matches[i].userId # call.userId

(* The requester has logged the matched title several times, and other users match *)
C2_Witness ==
    /\ IsFind \/ IsMovie
    /\ Len(Matches) >= 1
    /\ Cardinality({v \in Views : /\ v.userId = call.userId
                                  /\ v.tmdbId = Matches[1].movieId
                                  /\ RecentMovieView(v)}) >= 2

(* C3: no two entries of the matches of findPotentialMatches share the same
   (userId, movieId) pair. *)
C3_Dedup ==
    IsFind =>
        \A i, j \in 1..Len(Matches) :
            (Matches[i].userId = Matches[j].userId /\ Matches[i].movieId = Matches[j].movieId)
                => i = j

(* The other user has two recent views of the matched title *)
C3_Witness ==
    /\ IsFind
    /\ Len(Matches) >= 1
    /\ Cardinality({v \in Views : /\ v.userId = Matches[1].userId
                                  /\ v.tmdbId = Matches[1].movieId
                                  /\ RecentMovieView(v)}) >= 2

(* C4: when findPotentialMatches is called with minRating > 0, every returned
   match has theirRating present and theirRating >= minRating. *)
C4_MinRating ==
    (IsFind /\ minRatingOf(call.filters) > 0) =>
        \A i \in 1..Len(Matches) :
            /\ "theirRating" \in DOMAIN Matches[i]
            /\ Matches[i].theirRating >= minRatingOf(call.filters)

(* A candidate rated exactly minRating is returned *)
C4_Witness ==
    /\ IsFind
    /\ minRatingOf(call.filters) > 0
    /\ Len(Matches) >= 1
    /\ Matches[1].theirRating = minRatingOf(call.filters)

(* Rules 2 and 3 of the compatibility filter, as the claims state them *)
PassesMinRatingRule(c) ==
    minRatingOf(call.filters) <= 0
        \/ ("rating" \in DOMAIN c /\ c.rating >= minRatingOf(call.filters))

PassesBandRule(m, c) ==
    \/ "rating" \notin DOMAIN m
    \/ "rating" \notin DOMAIN c
    \/ Abs(m.rating - c.rating) <= 1 * RatingScale

QualifyingPair(m, c) ==
    /\ m.userId = call.userId /\ RecentMovieView(m)
    /\ c.userId # call.userId /\ RecentMovieView(c)
    /\ c.tmdbId = m.tmdbId
    /\ PassesMinRatingRule(c)
    /\ PassesBandRule(m, c)

(* C5: findPotentialMatches never drops a qualifying pair: for every recent
   movie view m of the requester and every recent movie view c of the same
   title by another user that pass the minRating rule and the rating band,
   the full match list holds an entry for (c.userId, m.tmdbId). *)
C5_NoQualifyingPairDropped ==
    IsFind =>
        \A m, c \in Views :
            QualifyingPair(m, c) =>
                \E i \in 1..Len(call.response.potentialMatches) :
                    /\ call.response.potentialMatches[i].userId = c.userId
                    /\ call.response.potentialMatches[i].movieId = m.tmdbId

(* A pair in which the requester's view is unrated and the other one is rated is kept *)
C5_Witness ==
    /\ IsFind
    /\ \E m, c \in Views :
           QualifyingPair(m, c) /\ "rating" \notin DOMAIN m /\ "rating" \in DOMAIN c
    /\ Len(call.response.potentialMatches) >= 1

(* C6: for every match returned by either finder, if the media cache holds the
   entry saveMovieToCache writes for the movie, movieTitle and moviePosterPath
   equal its title and posterPath; they are absent only when the cache holds
   no entry for the movie. *)
C6_TitleEnrichment ==
    (IsFind \/ IsMovie) =>
        \A i \in 1..Len(Matches) :
            LET mediaKey == getCachedMediaKey(Matches[i].movieId, "movie")
            IN  IF mediaKey \in DOMAIN media_cache
                THEN /\ "movieTitle" \in DOMAIN Matches[i]
                     /\ "moviePosterPath" \in DOMAIN Matches[i]
                     /\ Matches[i].movieTitle = media_cache[mediaKey].title
                     /\ Matches[i].moviePosterPath = media_cache[mediaKey].posterPath
                ELSE /\ "movieTitle" \notin DOMAIN Matches[i]
                     /\ "moviePosterPath" \notin DOMAIN Matches[i]

(* C7: the list returned by findPotentialMatches and the list returned by
   getMatchesForMovie are non-decreasing in daysAgo. *)
C7_SortedByDaysAgo ==
    (IsFind \/ IsMovie) =>
        \A i, j \in 1..Len(Matches) :
            i < j => Matches[i].daysAgo <= Matches[j].daysAgo

(* Two matches of different age are returned, the more recent one first *)
C7_Witness ==
    /\ IsFind \/ IsMovie
    /\ Len(Matches) >= 2
    /\ Matches[1].daysAgo < Matches[Len(Matches)].daysAgo

LimitValues == {0, 1, 2, DefaultLimit}

(* C8: total of findPotentialMatches equals the number of distinct qualifying
   (other user, title) pairs, and is the same for every value of limit. *)
C8_TotalCountsQualifyingPairs ==
    IsFind =>
        /\ call.response.total =
               Cardinality({<<p[2].userId, p[1].tmdbId>> :
                               p \in {q \in Views \X Views : QualifyingPair(q[1], q[2])}})
        /\ \A l \in LimitValues :
               findPotentialMatches(call.userId, ("limit" :> l) @@ call.filters,
                                    call.now).total = call.response.total

(* C9: for every limit >= 0 the matches of findPotentialMatches are the first
   min(limit, total) elements of the full list sorted by daysAgo, in order. *)
C9_LimitIsPrefix ==
    (IsFind /\ limitOf(call.filters) >= 0) =>
        /\ call.response.total = Len(call.response.potentialMatches)
        /\ \A i, j \in 1..Len(call.response.potentialMatches) :
               i < j => call.response.potentialMatches[i].daysAgo
                            <= call.response.potentialMatches[j].daysAgo
        /\ Len(Matches) = Min(limitOf(call.filters), call.response.total)
        /\ \A i \in 1..Len(Matches) : Matches[i] = call.response.potentialMatches[i]

(* The limit cuts the list: fewer matches are returned than were found *)
C9_Witness ==
    /\ IsFind
    /\ limitOf(call.filters) = 1
    /\ call.response.total >= 2
    /\ Len(Matches) = 1

NoRecentView == \A v \in Views : ~(v.userId = call.userId /\ RecentMovieView(v))

(* C10: if the requester has no movie view with watchedAt >= cutoff,
   findPotentialMatches returns {matches: [], total: 0} after exactly one
   store read and no candidate, profile or title-metadata read. *)
C10_EmptyShortCircuit ==
    (IsFind /\ NoRecentView) =>
        /\ call.response.matches = <<>>
        /\ call.response.total = 0
        /\ call.response.reads = [media_logs |-> 1, users |-> 0, media_cache |-> 0]

(* The requester has a view that does not count (too old, or not a movie) of a
   title another user watched recently *)
C10_Witness ==
    /\ IsFind
    /\ NoRecentView
    /\ \E v, c \in Views : /\ v.userId = call.userId
                           /\ c.userId # call.userId
                           /\ c.tmdbId = v.tmdbId
                           /\ RecentMovieView(c)

----------------------------------------------------------------------------
(* The first combination *)

LogIndexes == 1..Len(media_logs)

(* The (requester view, candidate view) combinations of the store, as places
   in media_logs, that make the pair (uid, tmdbId) *)
Combinations(uid, tmdbId) ==
    {p \in LogIndexes \X LogIndexes :
        /\ media_logs[p[2]].userId = uid
        /\ media_logs[p[1]].tmdbId = tmdbId
        /\ QualifyingPair(media_logs[p[1]], media_logs[p[2]])}

(* The requester's views come newest first, the candidates of one view
   oldest first *)
IsFirstCombination(p, S) ==
    \A q \in S : q[1] < p[1] \/ (q[1] = p[1] /\ q[2] >= p[2])

SameRating(name, match, log) ==
    IF "rating" \in DOMAIN log
    THEN name \in DOMAIN match /\ match[name] = log.rating
    ELSE name \notin DOMAIN match

(* C11: first-seen wins in findPotentialMatches: for every pair (other user,
   title) that has a qualifying combination, the list holds exactly one entry,
   and it carries theirWatchedAt, theirRating, myWatchedAt and myRating of
   the first combination in iteration order (requester's views newest first,
   candidates in store order); later views neither overwrite it nor add one. *)
C11_FirstSeenWins ==
    IsFind =>
        \A uid \in Users, tmdbId \in TmdbIds :
            LET S == Combinations(uid, tmdbId)
                found == call.response.potentialMatches
                entries == {i \in 1..Len(found) :
                               found[i].userId = uid /\ found[i].movieId = tmdbId}
            IN  S # {} =>
                    /\ Cardinality(entries) = 1
                    /\ \A i \in entries : \E p \in S :
                           /\ IsFirstCombination(p, S)
                           /\ found[i].myWatchedAt = media_logs[p[1]].watchedAt
                           /\ found[i].theirWatchedAt = media_logs[p[2]].watchedAt
                           /\ SameRating("myRating", found[i], media_logs[p[1]])
                           /\ SameRating("theirRating", found[i], media_logs[p[2]])

(* The place of a match in the list the nested loop accumulated *)
AccumulatedAt(match) ==
    CHOOSE k \in 1..Len(call.response.accumulated) : call.response.accumulated[k] = match

(* C12: the sort of findPotentialMatches is stable: two matches with equal
   daysAgo appear in the response in the order the nested loop accumulated them. *)
C12_StableSort ==
    IsFind =>
        \A i, j \in 1..Len(Matches) :
            (i < j /\ Matches[i].daysAgo = Matches[j].daysAgo)
                => /\ \E k \in 1..Len(call.response.accumulated) :
                          call.response.accumulated[k] = Matches[i]
                   /\ \E k \in 1..Len(call.response.accumulated) :
                          call.response.accumulated[k] = Matches[j]
                   /\ AccumulatedAt(Matches[i]) < AccumulatedAt(Matches[j])

(* Two matches of the same age are returned *)
C12_Witness ==
    /\ IsFind
    /\ Len(Matches) >= 2
    /\ Matches[1].daysAgo = Matches[2].daysAgo
    /\ Matches[1] # Matches[2]

(* The requester has a movie view of the title asked for, of any age *)
RequesterWatched ==
    \E v \in Views : /\ v.userId = call.userId
                     /\ v.tmdbId = call.movieId
                     /\ v.mediaType = "movie"

(* The places in media_logs of the recent movie views of the title by other users *)
OtherRecentViews ==
    {k \in LogIndexes : /\ media_logs[k].userId # call.userId
                        /\ media_logs[k].tmdbId = call.movieId
                        /\ RecentMovieView(media_logs[k])}

(* C13: when the requester has a movie view of the title, getMatchesForMovie
   returns exactly one match per movie view of it by another user with
   watchedAt >= cutoff (no rating filter, no deduplication, no limit), while
   findPotentialMatches on the same store holds that (user, title) pair at
   most once, and once when the pair qualifies there. *)
C13_OneMatchPerView ==
    (IsMovie /\ RequesterWatched) =>
        /\ Len(Matches) = Cardinality(OtherRecentViews)
        /\ \A i \in 1..Len(Matches) : Matches[i].movieId = call.movieId
        /\ \A k \in OtherRecentViews :
               Cardinality({i \in 1..Len(Matches) :
                               /\ Matches[i].userId = media_logs[k].userId
                               /\ Matches[i].theirWatchedAt = media_logs[k].watchedAt})
                 = Cardinality({l \in OtherRecentViews :
                                   /\ media_logs[l].userId = media_logs[k].userId
                                   /\ media_logs[l].watchedAt = media_logs[k].watchedAt})
        /\ LET found == findPotentialMatches(call.userId, call.filters,
                                             call.now).potentialMatches
               entries(uid) == {i \in 1..Len(found) :
                                   found[i].userId = uid /\ found[i].movieId = call.movieId}
           IN  \A uid \in Users :
                   /\ Cardinality(entries(uid)) <= 1
                   /\ Combinations(uid, call.movieId) # {} => Cardinality(entries(uid)) = 1

(* Another user has two recent views of the title and appears twice, and the
   multi-title finder holds the pair *)
C13_Witness ==
    /\ IsMovie
    /\ RequesterWatched
    /\ Len(Matches) = 2
    /\ Matches[1].userId = Matches[2].userId
    /\ Combinations(Matches[1].userId, call.movieId) # {}

(* C14: getMatchesForMovie returns an empty list if and only if the requester
   has no movie view of the title (of any age) or no other user has a movie
   view of it with watchedAt >= cutoff. *)
C14_EmptyIffNoViewOrNoOthers ==
    IsMovie =>
        (Matches = <<>> <=> (~RequesterWatched \/ OtherRecentViews = {}))

(* The requester never watched the title, two recent views of it by others
   exist, and the list is empty *)
C14_Witness ==
    /\ IsMovie
    /\ ~RequesterWatched
    /\ Cardinality(OtherRecentViews) >= 2
    /\ Matches = <<>>

(* The match carries the ratings of a view of the requester and a view of the
   other user it can have been made from *)
RatingsCopied(match) ==
    \E m, c \in Views :
        /\ m.userId = call.userId /\ c.userId = match.userId
        /\ m.tmdbId = match.movieId /\ c.tmdbId = match.movieId
        /\ m.mediaType = "movie" /\ c.mediaType = "movie"
        /\ m.watchedAt = match.myWatchedAt /\ c.watchedAt = match.theirWatchedAt
        /\ SameRating("myRating", match, m)
        /\ SameRating("theirRating", match, c)

(* C15: every match returned by either finder carries myRating equal to the
   rating of the requester's source view and theirRating equal to the rating
   of the other user's source view, each absent exactly when that view is
   unrated. *)
C15_RatingsCopied ==
    (IsFind \/ IsMovie) =>
        \A i \in 1..Len(Matches) : RatingsCopied(Matches[i])

(* C16: every match returned by findPotentialMatches is backed by two views of
   the store, one by the requester and one by the other user, of the same
   title, both of type movie and both with watchedAt >= cutoff = now -
   maxDaysAgo days; a tv view with the same id or a view older than the
   cutoff never produces or enables a match. *)
C16_BackedByRecentMovieViews ==
    IsFind =>
        \A i \in 1..Len(Matches) :
            \E m, c \in Views :
                /\ m.userId = call.userId /\ c.userId = Matches[i].userId
                /\ m.tmdbId = Matches[i].movieId /\ c.tmdbId = Matches[i].movieId
                /\ RecentMovieView(m) /\ RecentMovieView(c)
                /\ m.watchedAt = Matches[i].myWatchedAt
                /\ c.watchedAt = Matches[i].theirWatchedAt

(* A title is matched, and a third user's view of the same id that is a tv
   view or older than the cutoff brings no match for that user *)
C16_Witness ==
    /\ IsFind
    /\ Len(Matches) >= 1
    /\ \E v \in Views :
           /\ v.userId # call.userId
           /\ v.tmdbId = Matches[1].movieId
           /\ ~RecentMovieView(v)
           /\ \A i \in 1..Len(Matches) : Matches[i].userId # v.userId

(* C17: for every match returned by either finder, daysAgo is the integer
   floor of (now - theirWatchedAt) in days: daysAgo * D <= now - theirWatchedAt
   < (daysAgo + 1) * D, with D one day and now the reading of the wall clock
   at request time. *)
C17_DaysAgoIsFloor ==
    (IsFind \/ IsMovie) =>
        \A i \in 1..Len(Matches) :
            /\ Matches[i].daysAgo * TicksPerDay <= call.now - Matches[i].theirWatchedAt
            /\ call.now - Matches[i].theirWatchedAt < (Matches[i].daysAgo + 1) * TicksPerDay

(* The match is returned without the fields of a document that is missing *)
DegradesSoftly(match) ==
    /\ match.userId \notin DOMAIN users
           => ("displayName" \notin DOMAIN match /\ "photoURL" \notin DOMAIN match)
    /\ movieCacheKey(match.movieId) \notin DOMAIN media_cache
           => ("movieTitle" \notin DOMAIN match /\ "moviePosterPath" \notin DOMAIN match)

(* C18: a missing profile document of the other user or a missing title
   metadata entry never makes a finder fail and never drops the match: the
   match is still returned, with displayName and photoURL (respectively
   movieTitle and moviePosterPath) absent. *)
C18_MissingDocumentsDegrade ==
    /\ (IsFind \/ IsMovie) =>
           /\ "matches" \in DOMAIN call.response
           /\ \A i \in 1..Len(Matches) : DegradesSoftly(Matches[i])
    /\ IsFind =>
           \A m, c \in Views :
               QualifyingPair(m, c) =>
                   \E i \in 1..Len(call.response.potentialMatches) :
                       /\ call.response.potentialMatches[i].userId = c.userId
                       /\ call.response.potentialMatches[i].movieId = m.tmdbId
    /\ (IsMovie /\ RequesterWatched) =>
           \A k \in OtherRecentViews :
               \E i \in 1..Len(Matches) :
                   /\ Matches[i].userId = media_logs[k].userId
                   /\ Matches[i].theirWatchedAt = media_logs[k].watchedAt

(* A match with a user whose profile document is missing is returned, next to
   a match with a user who has one *)
C18_Witness ==
    /\ IsFind \/ IsMovie
    /\ \E i, j \in 1..Len(Matches) :
           /\ Matches[i].userId \notin DOMAIN users
           /\ "displayName" \notin DOMAIN Matches[i]
           /\ movieCacheKey(Matches[i].movieId) \notin DOMAIN media_cache
           /\ "displayName" \in DOMAIN Matches[j]

(* The store reads the invocation issues when none of them fails *)
ReadsWithoutFailure ==
    LET still == [call.run EXCEPT !.failAt = 0]
    IN  IF IsFind
        THEN findPotentialMatchesAt(call.userId, call.filters, call.now, still).reads
        ELSE getMatchesForMovieAt(call.userId, call.movieId, maxDaysAgoOf(call.filters),
                                  call.now, still).reads

(* One of the reads the invocation issues fails *)
ReadFailed == call.run.failAt \in 1..ReadsIssued(ReadsWithoutFailure)

(* C19: if a store read issued by findPotentialMatches or getMatchesForMovie
   fails, the invocation ends with that same error and returns no match list;
   the failed read is not repeated and no read follows it: the reads issued
   are the reads up to the failing one, each issued once. *)
C19_ReadFailurePropagates ==
    ((IsFind \/ IsMovie) /\ ReadFailed) =>
        /\ DOMAIN call.response = {"error", "reads"}
        /\ call.response.error = call.run.error
        /\ ReadsIssued(call.response.reads) = call.run.failAt
        /\ \A collection \in DOMAIN NoReads :
               call.response.reads[collection] <= ReadsWithoutFailure[collection]

(* The profile read of the second match fails, after a first match was accumulated *)
C19_Witness ==
    /\ IsFind \/ IsMovie
    /\ ReadFailed
    /\ call.response.reads.users = 2
    /\ call.response.reads.media_cache = 1
    /\ "error" \in DOMAIN call.response

(* Every character of the parameter is a decimal digit *)
IsNumeric(chars) == chars # <<>> /\ \A k \in 1..Len(chars) : IsDigit(chars[k])

(* C20: a request GET /matches/movie/{titleId} whose titleId is not numeric
   ends in a client error and is not answered with a success response; no
   store query is run for it. *)
C20_NonNumericTitleIdRejected ==
    (IsMovie /\ ~IsNumeric(call.movieIdParam)) =>
        /\ "matches" \notin DOMAIN call.response
        /\ "error" \in DOMAIN call.response
        /\ ReadsIssued(call.response.reads) = 0

(* C21: findPotentialMatches and getMatchesForMovie are read-only: a step
   that answers a finder invocation, with a result, with the empty
   short-circuit or with an error, leaves the viewing-log store, the user
   profiles and the media cache unchanged. *)
C21_FindersAreReadOnly ==
    [][(call' # call /\ call'.op \in {"findPotentialMatches", "getMatchesForMovie"})
          => /\ media_logs' = media_logs
             /\ nextLogId' = nextLogId
             /\ users' = users
             /\ media_cache' = media_cache]_vars

(* A finder ended in an error after it had accumulated a match, over a store
   that holds views and cache entries *)
C21_Witness ==
    /\ IsFind
    /\ "error" \in DOMAIN call.response
    /\ call.response.reads.users >= 2
    /\ Len(media_logs) = MaxFailureLogs
    /\ DOMAIN media_cache # {}

(* C22: concurrent finder invocations do not interfere: on a store that does
   not change and with a fixed clock, whatever the interleaving of the store
   reads of two findPotentialMatches invocations, each one returns the
   response it returns when it runs alone. *)
C22_ConcurrentFindersIndependent ==
    \A inv \in Invocations :
        pending[inv].pc = "done" =>
            LET alone == findPotentialMatches(pending[inv].userId, pending[inv].filters,
                                              pending[inv].now)
            IN  pending[inv].response = [matches |-> alone.matches, total |-> alone.total]

(* Two invocations for the same user have returned, each after steps taken
   between the awaits of the other, with two matches found *)
C22_Witness ==
    /\ \A inv \in Invocations : pending[inv].pc = "done" /\ pending[inv].interleaved
    /\ pending[1].userId = pending[2].userId
    /\ pending[1].response.total = 2

(* C25: the finders return matches most recent first: in the list returned
   by findPotentialMatches and in the list returned by getMatchesForMovie,
   for all positions i < j the other user's viewing at position i is not
   earlier than the one at position j. *)
C25_MostRecentFirst ==
    ((IsFind \/ IsMovie) /\ "matches" \in DOMAIN call.response) =>
        \A i, j \in 1..Len(Matches) :
            i < j => Matches[i].theirWatchedAt >= Matches[j].theirWatchedAt

(* C28: with a fixed request-time clock, maxDaysAgo >= 0 and no view dated
   in the future, every match returned by findPotentialMatches or
   getMatchesForMovie has 0 <= daysAgo <= maxDaysAgo. *)
C28_DaysAgoWithinWindow ==
    ((IsFind \/ IsMovie) /\ "matches" \in DOMAIN call.response) =>
        \A i \in 1..Len(Matches) :
            /\ 0 <= Matches[i].daysAgo
            /\ Matches[i].daysAgo <= maxDaysAgoOf(call.filters)

(* A match as old as the window allows is returned while another user's view
   of the title, older than the window, is left out *)
C28_Witness ==
    /\ IsMovie
    /\ "maxDaysAgo" \in DOMAIN call.filters
    /\ call.filters.maxDaysAgo = 1
    /\ Len(Matches) = 1
    /\ Matches[1].daysAgo = 1
    /\ \E v \in Views :
           /\ v.userId # call.userId
           /\ v.tmdbId = call.movieId
           /\ v.mediaType = "movie"
           /\ daysAgoOf(call.now, v.watchedAt) > 1

(* C29: findPotentialMatches never returns more entries than the limit asks
   for: for every integer limit the caller can pass, 0 and negative values
   included, the length of matches is at most max(limit, 0), while total is
   what it is without a limit. *)
C29_AtMostLimit ==
    (IsFind /\ "matches" \in DOMAIN call.response) =>
        /\ Len(Matches) <= Max(limitOf(call.filters), 0)
        /\ call.response.total =
               findPotentialMatches(call.userId, NoFields, call.now).total

(* The minRating values the comparison of the two finders ranges over *)
AnyMinRating ==
    {"minRating" :> r : r \in {4 * RatingScale + 1, MaxRating * RatingScale}}

(* The untruncated list of the call, and the list the same call gives with
   the minRating r *)
Untruncated(r) ==
    IF r = NoFields THEN call.response.potentialMatches
    ELSE findPotentialMatches(call.userId, r @@ call.filters, call.now).potentialMatches

(* The list getMatchesForMovie returns for the title to the requester of the
   call, on the store, at the clock and with the maxDaysAgo of the call *)
SingleTitle(movieId) ==
    getMatchesForMovie(call.userId, movieId, maxDaysAgoOf(call.filters), call.now).matches

(* C30: the multi-title finder is a restriction of the single-title finder:
   for the same requester, store, clock and maxDaysAgo, every match for title
   T in the untruncated result of findPotentialMatches (any minRating) has a
   counterpart in the result of getMatchesForMovie(T) with the same userId
   and the same theirWatchedAt. *)
C30_FindRestrictsSingleTitle ==
    (IsFind /\ "matches" \in DOMAIN call.response) =>
        \A T \in TmdbIds :
               LET single == SingleTitle(T)
               IN  \A r \in AnyMinRating \cup {NoFields} :
                       LET found == Untruncated(r)
                       IN  \A i \in 1..Len(found) :
                               found[i].movieId = T =>
                                   \E k \in 1..Len(single) :
                                       /\ single[k].userId = found[i].userId
                                       /\ single[k].theirWatchedAt = found[i].theirWatchedAt

(* The multi-title finder holds one match for a title, on a view of another
   time than the requester's, and the single-title finder returns more *)
C30_Witness ==
    /\ IsFind
    /\ "matches" \in DOMAIN call.response
    /\ \E i \in 1..Len(call.response.potentialMatches) :
           LET m == call.response.potentialMatches[i]
           IN  /\ m.theirWatchedAt # m.myWatchedAt
               /\ Len(SingleTitle(m.movieId)) >= 2
               /\ Cardinality({j \in 1..Len(call.response.potentialMatches) :
                       call.response.potentialMatches[j].movieId = m.movieId}) = 1

----------------------------------------------------------------------------
(* Properties of the media-logs service *)

(* The log of the next state that continues a log of this state *)
SameLog(old, new) == old.id = new.id

(* C23: across logMediaView, updateLog and deleteLog the userId, tmdbId,
   mediaType and watchedAt of an existing viewing log never change; a step
   changes of an existing log at most rating, review, reviewLang, notes and
   updatedAt, even when the body of updateLog carries a watchedAt. *)
C23_CoreFieldsImmutable ==
    [][\A i \in 1..Len(media_logs), j \in 1..Len(media_logs') :
          SameLog(media_logs[i], media_logs'[j]) =>
              /\ \A k \in DOMAIN media_logs[i] \ (UpdatableFields \cup {"updatedAt"}) :
                     /\ k \in DOMAIN media_logs'[j]
                     /\ media_logs'[j][k] = media_logs[i][k]
              /\ DOMAIN media_logs'[j] \subseteq
                     DOMAIN media_logs[i] \cup UpdatableFields \cup {"updatedAt"}
              /\ {"userId", "tmdbId", "mediaType", "watchedAt"}
                     \subseteq DOMAIN media_logs[i]]_vars

(* An updateLog whose body carries a rating and a watchedAt other than the
   log's succeeded: the log has the new rating and its own watchedAt *)
C23_Witness ==
    /\ call.op = "updateLog"
    /\ "error" \notin DOMAIN call.response
    /\ "watchedAt" \in DOMAIN call.body
    /\ \E i \in 1..Len(media_logs) :
           /\ media_logs[i].id = call.logId
           /\ media_logs[i].rating = call.body.rating
           /\ media_logs[i].watchedAt # call.body.watchedAt

(* The rating a log carries, absent included *)
RatingOf(log) == IF "rating" \in DOMAIN log THEN <<log.rating>> ELSE <<>>

(* C24 as stated: a view is immutable once created, the rating of an existing
   viewing log (present or absent) stays what it was when the log was
   created, until the log is deleted. *)
C24_RatingImmutable ==
    [][\A i \in 1..Len(media_logs), j \in 1..Len(media_logs') :
          SameLog(media_logs[i], media_logs'[j]) =>
              RatingOf(media_logs'[j]) = RatingOf(media_logs[i])]_vars

(* C24 amended: the rating of an existing viewing log stays what it was until
   the log is deleted or its owner's updateLog succeeds with a body that
   carries a rating, which becomes the log's rating; no other operation of
   the media-logs service and no other user's call changes it. *)
C24_RatingChangesOnlyByOwnerUpdate ==
    [][\A i \in 1..Len(media_logs), j \in 1..Len(media_logs') :
          (/\ SameLog(media_logs[i], media_logs'[j])
           /\ RatingOf(media_logs'[j]) # RatingOf(media_logs[i]))
              => /\ call = NoCall
                 /\ call'.op = "updateLog"
                 /\ call'.logId = media_logs[i].id
                 /\ call'.userId = media_logs[i].userId
                 /\ "rating" \in DOMAIN call'.body
                 /\ "error" \notin DOMAIN call'.response
                 /\ RatingOf(media_logs'[j]) = <<call'.body.rating>>]_vars

(* The owner's updateLog with only a rating in the body succeeded on a log
   next to another user's log, whose rating is still the one it was logged with *)
C24_Witness ==
    /\ call.op = "updateLog"
    /\ "error" \notin DOMAIN call.response
    /\ DOMAIN call.body = {"rating"}
    /\ \E i, j \in 1..Len(media_logs) :
           /\ media_logs[i].id = call.logId
           /\ media_logs[i].userId = call.userId
           /\ RatingOf(media_logs[i]) = <<3 * RatingScale>>
           /\ media_logs[j].userId # call.userId
           /\ RatingOf(media_logs[j]) = <<2 * RatingScale>>

(* The step is a call of one of the three operations on a single log *)
OnOneLog == /\ call = NoCall
            /\ call' # call
            /\ call'.op \in {"getLogById", "updateLog", "deleteLog"}

(* The log the call names, as stored when the call arrives: none or one *)
Named == SelectSeq(media_logs, LAMBDA log : log.id = call'.logId)

(* The request carries what the operation needs besides the log *)
OtherwiseValid ==
    call'.op = "updateLog" => DOMAIN call'.body \cap UpdatableFields # {}

(* C26: viewing logs are owner-only: getLogById, updateLog or deleteLog with
   a user id other than the log's userId ends in an error, Forbidden when the
   request is otherwise valid, and leaves that log and every other stored
   document unchanged; the same calls on a log id that does not exist end in
   an error and change nothing. *)
C26_OwnerOnly ==
    [][(OnOneLog /\ (Named = <<>> \/ Named[1].userId # call'.userId))
          => /\ "error" \in DOMAIN call'.response
             /\ (Named # <<>> /\ OtherwiseValid)
                    => call'.response.error = "Forbidden"
             /\ media_logs' = media_logs
             /\ users' = users
             /\ media_cache' = media_cache
             /\ chats' = chats]_vars

(* Another user's deleteLog was refused and the log is still stored *)
C26_Witness ==
    /\ call.op = "deleteLog"
    /\ "error" \in DOMAIN call.response
    /\ call.response.error = "Forbidden"
    /\ \E i \in 1..Len(media_logs) :
           /\ media_logs[i].id = call.logId
           /\ media_logs[i].userId # call.userId
    /\ Len(media_logs) = MaxServiceLogs

----------------------------------------------------------------------------
(* Properties of the chats service *)

(* The invocation has returned a chat *)
ReturnedChat(inv) ==
    /\ pending[inv].pc = "done"
    /\ pending[inv].op = "createOrGetChat"
    /\ "id" \in DOMAIN pending[inv].response

(* C27: createOrGetChat creates a chat or returns the existing one: at most
   one chat document exists per unordered pair of users, also when two calls
   for the same pair (A to B and B to A, or the same call twice) interleave
   their store reads and writes, and both calls return the same chat id. *)
C27_OneChatPerPair ==
    /\ \A i, j \in 1..Len(chats) :
           chats[i].members = chats[j].members => i = j
    /\ \A inv, other \in Invocations :
           (/\ ReturnedChat(inv)
            /\ ReturnedChat(other)
            /\ pending[inv].members = pending[other].members)
               => pending[inv].response.id = pending[other].response.id

====
